---------------------------- MODULE Spec2Model ----------------------------
(***************************************************************************)
(* A model of the PuzzleScript agent loops:                                *)
(*   src/src/learning_mode.py   Agent (rule book, legend, action parsing)  *)
(*                              and run_learning_mode                      *)
(*   src/src/solving_mode.py    Agent._parse_action and run_solving_mode   *)
(*                                                                         *)
(* Texts (oracle responses, rules, the rules file) are sequences of        *)
(* one-character strings.  The game server and the text-completion oracle  *)
(* are the environment: every value they return is an input of an action,  *)
(* drawn from a small set.                                                 *)
(***************************************************************************)
EXTENDS Integers, Sequences, FiniteSets, TLC

VARIABLES
    loop,            \* which entry point runs: "learning", "solving", or "agent" (methods called directly)
    cfg,             \* Config: [mode, max_steps]
    pc,              \* position in the loop: "loop" (top of while True), "act", "done", "raised"
    state,           \* the dict `state`: [board, level, steps, local]
    history,         \* agent.history (the global history)
    known_rules,     \* agent.known_rules
    rules_file,      \* contents of agent.rules_file, or NoFile
    inferred_legend, \* agent.inferred_legend (a parsed JSON value)
    subgoal,         \* local `subgoal` of run_learning_mode
    board_changed,   \* local `board_changed` of run_learning_mode
    response,        \* local `response` of Agent.act: the oracle's raw text
    action,          \* local `action` of the loop
    prev_board,      \* local `prev_board` of run_learning_mode
    res,             \* local `res`: the server's last answer, or NoAnswer
    new_rules,       \* local `new_rules` of deduce_rules_from_history, or NoRules
    final_rules,     \* local `final_rules` of run_learning_mode, or NoText
    wrote,           \* whether the step just taken opened the rules file for writing
    calls            \* calls made so far: [server |-> srv.action, infer |-> infer_legend,
                     \*   refine |-> refine_and_complete_rules_and_legend,
                     \*   deduce, plan |-> the calls of the planning cadence]

vars == <<loop, cfg, pc, state, history, known_rules, rules_file, inferred_legend,
          subgoal, board_changed, response, action, prev_board, res, new_rules,
          final_rules, wrote, calls>>

agentVars == <<known_rules, rules_file, inferred_legend>>
loopVars  == <<state, history, subgoal, board_changed, prev_board, res>>

-----------------------------------------------------------------------------
(* Bounds of the model. *)

MaxLen == 3         \* longest oracle text enumerated for the action parser
MaxCand == 3        \* longest candidate list of one merge
MaxSteps == 6       \* largest step budget of a run
MaxBook == 3        \* longest rule book a new Agent is constructed over
MaxRefine == 2      \* most refinement calls made on one Agent
MaxDeduce == 2      \* most planning cadences of one run
CadenceTurns == 12  \* step budget of the cadence run

-----------------------------------------------------------------------------
(* Python values. *)

None == "None"
NoFile == <<"NoFile">>      \* os.path.exists(rules_file) is false
NoAnswer == [none |-> TRUE] \* srv.action returned None
NoRules == <<<<"None">>>>   \* `new_rules` not assigned yet
NoAction == "NoAction"      \* `action` not assigned yet
NoText == <<"?">>           \* `response`, `final_rules` not assigned yet

RECURSIVE Concat(_)
Concat(ss) == IF ss = <<>> THEN <<>> ELSE Head(ss) \o Concat(Tail(ss))

Last(s) == s[Len(s)]

IsPrefix(s, t) == Len(s) <= Len(t) /\ SubSeq(t, 1, Len(s)) = s

SeqsUpTo(S, n) == UNION {[1..k -> S] : k \in 0..n}

NoDup(s) == \A i, j \in 1..Len(s) : s[i] = s[j] => i = j

Range(s) == {s[i] : i \in 1..Len(s)}

-----------------------------------------------------------------------------
(* Agent._parse_action, the same code in both modes. *)

LowerCase == <<"a","b","c","d","e","f","g","h","i","j","k","l","m",
               "n","o","p","q","r","s","t","u","v","w","x","y","z">>
UpperCase == <<"A","B","C","D","E","F","G","H","I","J","K","L","M",
               "N","O","P","Q","R","S","T","U","V","W","X","Y","Z">>

\* str.upper() of one character
upper(c) == IF \E i \in 1..26 : LowerCase[i] = c
            THEN UpperCase[CHOOSE i \in 1..26 : LowerCase[i] = c]
            ELSE c

\* str.lower() of one character
lower(c) == IF \E i \in 1..26 : UpperCase[i] = c
            THEN LowerCase[CHOOSE i \in 1..26 : UpperCase[i] = c]
            ELSE c

\* str.lower() of an action: a one-character command or the string "wait"
action_lower(a) == IF a = "wait" THEN "wait" ELSE lower(a)

valid == {"W", "A", "S", "D", "X", "Z", "R", "w", "a", "s", "d", "x", "z", "r"}

\* the seven commands
Commands == {"W", "A", "S", "D", "X", "Z", "R"}

\* a mutation of _parse_action: the last valid character wins
RECURSIVE parse_action_last(_)
parse_action_last(text) ==
    IF text = <<>> THEN "wait"
    ELSE IF Last(text) \in valid THEN upper(Last(text))
    ELSE parse_action_last(SubSeq(text, 1, Len(text) - 1))

\* a mutation of _parse_action: the lower-case letters are missing from `valid`
RECURSIVE parse_action_upper_only(_)
parse_action_upper_only(text) ==
    IF text = <<>> THEN "wait"
    ELSE IF Head(text) \in Commands THEN Head(text)
    ELSE parse_action_upper_only(Tail(text))

RECURSIVE _parse_action(_)
_parse_action(text) ==
    IF text = <<>> THEN "wait"
    ELSE IF Head(text) \in valid THEN upper(Head(text))
    ELSE _parse_action(Tail(text))

-----------------------------------------------------------------------------
(* The rule book: Agent._load_rules, Agent._save_rules and the merge step *)
(* of Agent.deduce_rules_from_history.                                     *)

Whitespace == {" ", "\n", "\t"}

RECURSIVE lstrip(_)
lstrip(s) == IF s # <<>> /\ Head(s) \in Whitespace THEN lstrip(Tail(s)) ELSE s

RECURSIVE rstrip(_)
rstrip(s) == IF s # <<>> /\ Last(s) \in Whitespace
             THEN rstrip(SubSeq(s, 1, Len(s) - 1)) ELSE s

\* str.strip()
strip(s) == rstrip(lstrip(s))

\* f.readlines(): each line keeps its "\n"; a last line may lack one
RECURSIVE readlines(_)
readlines(text) ==
    IF text = <<>> THEN <<>>
    ELSE LET brk == {i \in 1..Len(text) : text[i] = "\n"}
         IN  IF brk = {} THEN <<text>>
             ELSE LET k == CHOOSE i \in brk : \A j \in brk : i <= j
                  IN  <<SubSeq(text, 1, k)>> \o readlines(SubSeq(text, k + 1, Len(text)))

\* what _save_rules writes: f"{rule}\n" for each rule
FileText(rules) == Concat([i \in 1..Len(rules) |-> rules[i] \o <<"\n">>])

\* Agent._load_rules
_load_rules(file) ==
    IF file # NoFile
    THEN LET lines == readlines(file) IN [i \in 1..Len(lines) |-> strip(lines[i])]
    ELSE <<>>

\* Agent._save_rules
_save_rules(rules) ==
    /\ rules_file' = FileText(rules)
    /\ known_rules' = rules
    /\ wrote' = TRUE

\* a mutation of the merge loop: a candidate is compared with nothing
RECURSIVE MergeNoMembershipTest(_, _)
MergeNoMembershipTest(known, candidates) ==
    IF candidates = <<>> THEN known
    ELSE LET rule == Head(candidates)
         IN  IF rule # <<>>
             THEN MergeNoMembershipTest(Append(known, rule), Tail(candidates))
             ELSE MergeNoMembershipTest(known, Tail(candidates))

\* the loop `for rule in new_rules: if rule and rule not in self.known_rules: append`
RECURSIVE MergeRules(_, _)
MergeRules(known, candidates) ==
    IF candidates = <<>> THEN known
    ELSE LET rule == Head(candidates)
         IN  IF rule # <<>> /\ rule \notin Range(known)
             THEN MergeRules(Append(known, rule), Tail(candidates))
             ELSE MergeRules(known, Tail(candidates))

(* The oracle's answer to a structured request, as json.loads(_extract_json( *)
(* response)) sees it: not JSON at all, JSON that is no object, or an       *)
(* object whose key may be missing.                                         *)
Invalid == [kind |-> "invalid"]
NotObject == [kind |-> "array"]
RulesObject(has, rules) == [kind |-> "object", has_rules |-> has, rules |-> rules]

\* data.get("rules", [])
GetRules(data) == IF data.has_rules THEN data.rules ELSE <<>>

\* json.loads succeeded but data.get does not exist: AttributeError, not caught
deduce_raises(data) == data.kind = "array"

\* a mutation of deduce_rules_from_history: the file is rewritten after every merge
deduce_always_saves(data) ==
    IF data.kind = "object"
    THEN /\ new_rules' = GetRules(data)
         /\ _save_rules(MergeRules(known_rules, GetRules(data)))
    ELSE /\ wrote' = FALSE
         /\ UNCHANGED <<known_rules, rules_file, new_rules>>

\* Agent.deduce_rules_from_history from the oracle's answer on
deduce_rules_from_history(data) ==
    IF data.kind = "object"
    THEN LET merged == MergeRules(known_rules, GetRules(data))
             added_any == merged # known_rules
         IN  /\ new_rules' = GetRules(data)
             /\ IF added_any
                THEN _save_rules(merged)
                ELSE /\ wrote' = FALSE
                     /\ UNCHANGED <<known_rules, rules_file>>
    ELSE /\ wrote' = FALSE
         /\ UNCHANGED <<known_rules, rules_file, new_rules>>

\* the answer to refine_and_complete_rules_and_legend, parsed
RefineObject(has, rules, legend) ==
    [kind |-> "object", has_final_rules |-> has, final_rules |-> rules, legend |-> legend]

\* data.get("final_rules", [])
GetFinalRules(data) == IF data.has_final_rules THEN data.final_rules ELSE <<>>

\* json.loads succeeded but data.get does not exist: AttributeError, not caught
refine_raises(data) == data.kind = "array"

\* Agent.refine_and_complete_rules_and_legend from the oracle's answer on
refine_and_complete_rules_and_legend(data) ==
    IF data.kind = "object"
    THEN /\ inferred_legend' = data.legend
         /\ IF GetFinalRules(data) # <<>>
            THEN _save_rules(GetFinalRules(data))
            ELSE /\ wrote' = FALSE
                 /\ UNCHANGED <<known_rules, rules_file>>
    ELSE /\ wrote' = FALSE
         /\ UNCHANGED <<known_rules, rules_file, inferred_legend>>

-----------------------------------------------------------------------------
(* Agent.infer_legend and the terminal analysis of run_learning_mode. *)

(* A legend as json.loads returns it: any JSON value.  `truthy` is what     *)
(* `if agent.inferred_legend:` sees; only an object has .items().           *)
LegendValue(kind, truthy) == [kind |-> kind, truthy |-> truthy]
EmptyLegend == LegendValue("object", FALSE)      \* {} set by Agent.__init__

\* Agent.infer_legend: a parse failure is printed and the legend kept
infer_legend(data) ==
    inferred_legend' = IF data.kind = "invalid" THEN inferred_legend ELSE data

\* "--- FINAL RULES SUMMARY ---\n"
SummaryHeader == <<"-","-","-"," ","F","I","N","A","L"," ","R","U","L","E","S"," ",
                   "S","U","M","M","A","R","Y"," ","-","-","-","\n">>

-----------------------------------------------------------------------------
(* run_learning_mode: one action per path through one pass of `while True`, *)
(* the planning cadence of lines 257-264 being a step of its own.           *)

K == 5      \* the cadence `state['steps'] % 5` and the window history[-5:]

\* a mutation of line 239: the budget is tested with >
BudgetOffByOne == state.steps > cfg.max_steps

\* line 239
BudgetReached == state.steps >= cfg.max_steps

\* a mutation of line 257: the test `state['steps'] > 0` is missing
CadenceDueAtZero == state.steps % K = 0

\* a mutation of line 257: the cadence is skipped when a wait is retried
CadenceDueOnce == state.steps > 0 /\ state.steps % K = 0 /\ action # "wait"

\* line 257
CadenceDue == state.steps > 0 /\ state.steps % K = 0

\* a mutation of lines 241-249: the final analysis is the refinement call
TerminalCallsRefine(c) == [c EXCEPT !.refine = @ + 1]

\* lines 241-249: the final analysis calls infer_legend, then (maybe) learn
TerminalCalls(c) == [c EXCEPT !.infer = @ + 1]

\* a mutation of line 251: a summary is persisted whatever learn returned
PersistAnySummary(legend, summary) == legend.truthy

\* lines 247 and 251: `if agent.inferred_legend:` and `if final_rules:`
PersistSummary(legend, summary) == legend.truthy /\ summary # <<>>

\* line 252: the one rule the terminal analysis saves
SummaryRule(summary) == SummaryHeader \o summary

\* lines 239-255: final analysis, then break
BudgetExhausted(legends, summaries) ==
    /\ loop = "learning"
    /\ pc = "loop"
    /\ BudgetReached
    /\ \E data \in legends, summary \in summaries :
          LET legend == IF data.kind = "invalid" THEN inferred_legend ELSE data
          IN  /\ infer_legend(data)
              /\ IF legend.truthy /\ legend.kind # "object"
                 THEN \* Agent.learn: legend.items() raises AttributeError
                      /\ pc' = "raised"
                      /\ wrote' = FALSE
                      /\ UNCHANGED <<known_rules, rules_file, final_rules>>
                 ELSE /\ pc' = "done"
                      /\ final_rules' = IF legend.truthy THEN summary ELSE final_rules
                      /\ IF PersistSummary(legend, summary)
                         THEN _save_rules(<<SummaryRule(summary)>>)
                         ELSE /\ wrote' = FALSE
                              /\ UNCHANGED <<known_rules, rules_file>>
    /\ calls' = TerminalCalls(calls)
    /\ UNCHANGED <<loop, cfg, loopVars, response, action, new_rules>>

\* lines 257-264: deduce rules from history[-5:], then plan a subgoal
PlanningCadence(answers, plans) ==
    /\ loop = "learning"
    /\ pc = "loop"
    /\ ~BudgetReached
    /\ CadenceDue
    /\ calls.deduce < MaxDeduce
    /\ \E data \in answers, plan \in plans :
          IF deduce_raises(data)
          THEN /\ pc' = "raised"
               /\ wrote' = FALSE
               /\ calls' = [calls EXCEPT !.deduce = @ + 1]
               /\ UNCHANGED <<known_rules, rules_file, subgoal, new_rules>>
          ELSE /\ deduce_rules_from_history(data)
               /\ subgoal' = plan
               /\ calls' = [calls EXCEPT !.deduce = @ + 1, !.plan = @ + 1]
               /\ pc' = "act"
    /\ UNCHANGED <<loop, cfg, state, history, inferred_legend, board_changed,
                   response, action, prev_board, res, final_rules>>

\* control is at line 266: after the cadence, or past both checks
AtAct == \/ pc = "act"
         \/ pc = "loop" /\ ~BudgetReached /\ ~CadenceDue

\* a mutation of lines 269-271: the `continue` is missing and the turn is counted
WaitCountsStep(texts) ==
    /\ loop = "learning"
    /\ AtAct
    /\ \E text \in texts :
          /\ response' = text
          /\ action' = _parse_action(text)
          /\ action_lower(action') = "wait"
    /\ state' = [state EXCEPT !.steps = @ + 1]
    /\ pc' = "loop"
    /\ wrote' = FALSE
    /\ UNCHANGED <<loop, cfg, agentVars, history, subgoal, board_changed, prev_board,
                   res, new_rules, final_rules, calls>>

\* lines 266-271: the action is the wait sentinel; sleep and continue
Wait(texts) ==
    /\ loop = "learning"
    /\ AtAct
    /\ \E text \in texts :
          /\ response' = text
          /\ action' = _parse_action(text)
          /\ action_lower(action') = "wait"
    /\ pc' = "loop"
    /\ wrote' = FALSE
    /\ UNCHANGED <<loop, cfg, agentVars, loopVars, new_rules, final_rules, calls>>

\* a mutation of line 276: `continue` for `break`, the failed call is retried
ServerFailRetries(texts) ==
    /\ loop = "learning"
    /\ AtAct
    /\ \E text \in texts :
          /\ response' = text
          /\ action' = _parse_action(text)
          /\ action_lower(action') # "wait"
    /\ prev_board' = state.board
    /\ res' = NoAnswer
    /\ calls' = [calls EXCEPT !.server = @ + 1]
    /\ pc' = "loop"
    /\ wrote' = FALSE
    /\ UNCHANGED <<loop, cfg, agentVars, state, history, subgoal, board_changed,
                   new_rules, final_rules>>

\* lines 266-276: srv.action fails; break
ServerFail(texts) ==
    /\ loop = "learning"
    /\ AtAct
    /\ \E text \in texts :
          /\ response' = text
          /\ action' = _parse_action(text)
          /\ action_lower(action') # "wait"
    /\ prev_board' = state.board
    /\ res' = NoAnswer
    /\ calls' = [calls EXCEPT !.server = @ + 1]
    /\ pc' = "done"
    /\ wrote' = FALSE
    /\ UNCHANGED <<loop, cfg, agentVars, state, history, subgoal, board_changed,
                   new_rules, final_rules>>

\* line 288
LevelComplete(r, level) == r.status = "game_complete" \/ r.level # level

\* a mutation of line 278: the pair is built the wrong way round
HistoryEntrySwapped(board, act) == <<act, board>>

\* line 278: the pair (prev_board, action)
HistoryEntry(board, act) == <<board, act>>

\* a mutation of line 278: a level transition also empties agent.history
HistoryClearedOnLevel(h, entry, complete) ==
    IF complete THEN <<>> ELSE Append(h, entry)

\* line 278: agent.history.append((prev_board, action)), whatever the answer
HistoryAfter(h, entry, complete) == Append(h, entry)

\* a mutation of lines 280 and 290: the local history survives a level transition
LocalNeverReset(local, entry, complete) == Append(local, entry)

\* lines 280 and 288-290 (solving_mode.py: 65 and 69-71)
LocalAfter(local, entry, complete) ==
    IF complete THEN <<>> ELSE Append(local, entry)

\* a mutation of lines 284 and 292: the comparison is the wrong way round
BoardChangedInverted(prev, board, complete) ==
    IF complete THEN TRUE ELSE prev = board

\* lines 284 and 288-292
BoardChangedAfter(prev, board, complete) ==
    IF complete THEN TRUE ELSE prev # board

\* a mutation of lines 294-296: completion ends the run in every mode
BreaksOnAnyCompletion(mode, r) == r.status = "game_complete"

\* lines 294-296: break out of the loop
WinBreak(mode, r) == mode = "win" /\ r.status = "game_complete"

\* lines 266-298: the action is committed
Commit(texts, answers) ==
    /\ loop = "learning"
    /\ AtAct
    /\ \E text \in texts, r \in answers :
          LET complete == LevelComplete(r, state.level)
              entry == HistoryEntry(state.board, _parse_action(text))
          IN  /\ response' = text
              /\ action' = _parse_action(text)
              /\ action_lower(action') # "wait"
              /\ prev_board' = state.board
              /\ res' = r
              /\ history' = HistoryAfter(history, entry, complete)
              /\ state' = [board |-> r.board,
                           level |-> IF complete THEN r.level ELSE state.level,
                           steps |-> state.steps + 1,
                           local |-> LocalAfter(state.local, entry, complete)]
              /\ board_changed' = BoardChangedAfter(state.board, r.board, complete)
              /\ subgoal' = IF complete THEN "" ELSE subgoal
              /\ pc' = IF complete /\ WinBreak(cfg.mode, r) THEN "done" ELSE "loop"
    /\ calls' = [calls EXCEPT !.server = @ + 1]
    /\ wrote' = FALSE
    /\ UNCHANGED <<loop, cfg, agentVars, new_rules, final_rules>>

-----------------------------------------------------------------------------
(* run_solving_mode: no budget, no cadence, no global history.  The model  *)
(* stops a run after MaxSteps committed actions.                            *)

\* lines 54-59
SolveWait(texts) ==
    /\ loop = "solving"
    /\ pc = "loop"
    /\ state.steps < MaxSteps
    /\ \E text \in texts :
          /\ response' = text
          /\ action' = _parse_action(text)
          /\ action_lower(action') = "wait"
    /\ wrote' = FALSE
    /\ UNCHANGED <<loop, cfg, pc, agentVars, loopVars, new_rules, final_rules, calls>>

\* lines 54-63
SolveFail(texts) ==
    /\ loop = "solving"
    /\ pc = "loop"
    /\ state.steps < MaxSteps
    /\ \E text \in texts :
          /\ response' = text
          /\ action' = _parse_action(text)
          /\ action_lower(action') # "wait"
    /\ res' = NoAnswer
    /\ calls' = [calls EXCEPT !.server = @ + 1]
    /\ pc' = "done"
    /\ wrote' = FALSE
    /\ UNCHANGED <<loop, cfg, agentVars, state, history, subgoal, board_changed,
                   prev_board, new_rules, final_rules>>

\* lines 54-77
SolveCommit(texts, answers) ==
    /\ loop = "solving"
    /\ pc = "loop"
    /\ state.steps < MaxSteps
    /\ \E text \in texts, r \in answers :
          LET complete == LevelComplete(r, state.level)
              entry == HistoryEntry(state.board, _parse_action(text))
          IN  /\ response' = text
              /\ action' = _parse_action(text)
              /\ action_lower(action') # "wait"
              /\ res' = r
              /\ state' = [board |-> r.board,
                           level |-> IF complete THEN r.level ELSE state.level,
                           steps |-> state.steps + 1,
                           local |-> LocalAfter(state.local, entry, complete)]
              /\ pc' = IF complete /\ r.status = "game_complete" THEN "done" ELSE "loop"
    /\ calls' = [calls EXCEPT !.server = @ + 1]
    /\ wrote' = FALSE
    /\ UNCHANGED <<loop, cfg, agentVars, history, subgoal, board_changed, prev_board,
                   new_rules, final_rules>>

-----------------------------------------------------------------------------
(* The environment of a run. *)

Boards == {"B1", "B2"}
Levels == {1, 2}
Statuses == {None, "game_complete"}

\* what srv.action returns when it does not fail
ServerAnswers == [board : Boards, level : Levels, status : Statuses]

\* what the oracle answers to Agent.act: they parse to D and to "wait"
OracleTexts == {<<" ", "d">>, <<"h", "m", "m">>}

R1 == <<"a">>
R2 == <<"b">>
R3 == <<" ", "a">>
R4 == <<"a", "\n", "b">>
RuleUniverse == {<<>>, R1, R2, R3, R4}

\* what the oracle answers to deduce_rules_from_history, parsed
DeduceAnswers == {Invalid, NotObject, RulesObject(FALSE, <<>>),
                  RulesObject(TRUE, <<R1>>), RulesObject(TRUE, <<R1, <<>>, R1>>)}

\* what the oracle answers to plan_subgoal
Plans == {"", "explore"}

\* what the oracle answers to infer_legend, parsed
LegendAnswers == {Invalid, LegendValue("object", FALSE), LegendValue("object", TRUE),
                  LegendValue("array", TRUE)}

\* what the oracle answers to Agent.learn
Summaries == {<<>>, <<"a">>}

Configs == [mode : {"learn", "win"}, max_steps : 0..MaxSteps]

\* the fields Agent.__init__ sets; known_rules is read from the rules file
InitAgent(files) ==
    /\ history = <<>>
    /\ rules_file \in files
    /\ known_rules = _load_rules(rules_file)
    /\ inferred_legend = EmptyLegend
    /\ new_rules = NoRules
    /\ wrote = FALSE
    /\ calls = [server |-> 0, infer |-> 0, refine |-> 0, deduce |-> 0, plan |-> 0]

\* the locals of a loop before its first pass, after a successful srv.init
InitLocals ==
    /\ state \in [board : {"B1"}, level : {1}, steps : {0}, local : {<<>>}]
    /\ subgoal = ""
    /\ board_changed = TRUE
    /\ action = NoAction
    /\ prev_board = None
    /\ res = NoAnswer
    /\ final_rules = NoText

(* The state after Agent.__init__ and a successful srv.init; a failed init *)
(* returns before the loop.                                                 *)
InitRun(loops, configs, files) ==
    /\ loop \in loops
    /\ cfg \in configs
    /\ pc = "loop"
    /\ response = NoText
    /\ InitAgent(files)
    /\ InitLocals

Init == InitRun({"learning", "solving"}, Configs, {NoFile})

Next ==
    \/ BudgetExhausted(LegendAnswers, Summaries)
    \/ PlanningCadence(DeduceAnswers, Plans)
    \/ Wait(OracleTexts)
    \/ ServerFail(OracleTexts)
    \/ Commit(OracleTexts, ServerAnswers)
    \/ SolveWait(OracleTexts)
    \/ SolveFail(OracleTexts)
    \/ SolveCommit(OracleTexts, ServerAnswers)

Spec == Init /\ [][Next]_vars

-----------------------------------------------------------------------------
(* The learning run of the end-to-end scenario: a server that never fails, *)
(* never reports completion and returns the board unchanged, and an oracle *)
(* that always names a valid action.  The budget goes up to CadenceTurns.   *)

StubTexts == {<<"D">>}
StubAnswers == [board : {"B1"}, level : Levels, status : {None}]
StubDeduce == DeduceAnswers \ {NotObject}
StubConfigs == [mode : {"learn"}, max_steps : 0..CadenceTurns]

InitStub == InitRun({"learning"}, StubConfigs, {NoFile})

NextStub ==
    \/ BudgetExhausted(LegendAnswers, Summaries)
    \/ PlanningCadence(StubDeduce, Plans)
    \/ Commit(StubTexts, StubAnswers)

SpecStub == InitStub /\ [][NextStub]_vars

-----------------------------------------------------------------------------
(* Agent._parse_action applied to an oracle text: the last line of          *)
(* Agent.act, the text having been returned by the oracle.                  *)

ParseChars == valid \cup {"h", " ", "T", "."}

BestMoveText ==
    <<"T","h","e"," ","b","e","s","t"," ","m","o","v","e"," ","i",
    "s"," ","D"," ","b","e","c","a","u","s","e",".",".",".">>
NotSureText ==
    <<"h","m","m"," ","n","o","t"," ","s","u","r","e">>

\* llm_client.py line 78: what _call_llm returns when the request raised
FailedCall == <<"w","a","i","t">>

\* llm_client.py line 75: what _call_llm returns for a response without text
EmptyCall == <<>>

ParseTexts == SeqsUpTo(ParseChars, MaxLen)
              \cup {BestMoveText, NotSureText, FailedCall, EmptyCall}

InitParse ==
    /\ loop = "agent"
    /\ cfg = [mode |-> "learn", max_steps |-> 0]
    /\ pc = "act"
    /\ response \in ParseTexts
    /\ InitAgent({NoFile})
    /\ InitLocals

\* learning_mode.py line 202, solving_mode.py line 31
ActParse ==
    /\ loop = "agent"
    /\ pc = "act"
    /\ action' = _parse_action(response)
    /\ pc' = "done"
    /\ UNCHANGED <<loop, cfg, state, history, known_rules, rules_file, inferred_legend,
                   subgoal, board_changed, response, prev_board, res, new_rules,
                   final_rules, wrote, calls>>

NextParse == ActParse

SpecParse == InitParse /\ [][NextParse]_vars

-----------------------------------------------------------------------------
(* Agent.deduce_rules_from_history called on an agent whose rule book was  *)
(* loaded from a file an earlier run left behind.                           *)

\* rules files whose lines, read back, are all different
PriorFiles == {f \in {NoFile} \cup {FileText(b) : b \in SeqsUpTo(RuleUniverse, 1)} :
                  NoDup(_load_rules(f))}

\* candidate rules: the empty string, two plain rules, one that differs from
\* another by leading whitespace only
Candidates == {<<>>, R1, R2, R3}

\* answers that carry a list of candidate rules, or none
MergeAnswers == {Invalid, RulesObject(FALSE, <<>>)}
                \cup {RulesObject(TRUE, c) : c \in SeqsUpTo(Candidates, MaxCand)}

InitMerge ==
    /\ loop = "agent"
    /\ cfg = [mode |-> "learn", max_steps |-> 0]
    /\ pc = "idle"
    /\ response = NoText
    /\ InitAgent(PriorFiles)
    /\ InitLocals

DeduceCall(answers) ==
    /\ loop = "agent"
    /\ pc = "idle"
    /\ \E data \in answers : deduce_rules_from_history(data)
    /\ UNCHANGED <<loop, cfg, pc, state, history, inferred_legend, subgoal,
                   board_changed, response, action, prev_board, res, final_rules, calls>>

NextMerge == DeduceCall(MergeAnswers)

SpecMerge == InitMerge /\ [][NextMerge]_vars

-----------------------------------------------------------------------------
(* The rule book over several agents: deduce_rules_from_history and         *)
(* refine_and_complete_rules_and_legend called on an agent, and a new       *)
(* Agent constructed over the rules file the last one left.                 *)

\* answers to deduce_rules_from_history that carry one candidate rule
BookAnswers == {RulesObject(TRUE, <<r>>) : r \in Candidates \ {<<>>}}

\* answers to refine_and_complete_rules_and_legend
RefineAnswers ==
    {Invalid, NotObject, RefineObject(FALSE, <<>>, LegendValue("object", TRUE))}
    \cup {RefineObject(TRUE, rules, EmptyLegend) :
             rules \in {<<>>, <<R1>>, <<R2, R1>>, <<R1, R1>>}}

RefineCall(answers) ==
    /\ loop = "agent"
    /\ pc = "idle"
    /\ calls.refine < MaxRefine
    /\ \E data \in answers :
          IF refine_raises(data)
          THEN /\ pc' = "raised"
               /\ wrote' = FALSE
               /\ UNCHANGED <<known_rules, rules_file, inferred_legend>>
          ELSE /\ refine_and_complete_rules_and_legend(data)
               /\ pc' = pc
    /\ calls' = [calls EXCEPT !.refine = @ + 1]
    /\ UNCHANGED <<loop, cfg, state, history, subgoal, board_changed, response,
                   action, prev_board, res, new_rules, final_rules>>

\* Agent.__init__ of the next process: the rule book is read from the file
NewAgent ==
    /\ loop = "agent"
    /\ pc \in {"idle", "raised"}
    /\ Len(_load_rules(rules_file)) <= MaxBook
    /\ pc' = "idle"
    /\ history' = <<>>
    /\ inferred_legend' = EmptyLegend
    /\ known_rules' = _load_rules(rules_file)
    /\ new_rules' = NoRules
    /\ wrote' = FALSE
    /\ calls' = [server |-> 0, infer |-> 0, refine |-> 0, deduce |-> 0, plan |-> 0]
    /\ UNCHANGED <<loop, cfg, state, rules_file, subgoal, board_changed, response,
                   action, prev_board, res, final_rules>>

NextRules ==
    \/ DeduceCall(BookAnswers)
    \/ RefineCall(RefineAnswers)
    \/ NewAgent

SpecRules == InitMerge /\ [][NextRules]_vars

-----------------------------------------------------------------------------
(* Properties. *)

Terminal == {"done", "raised"}

\* C1 (SpecMerge): after any sequence of merges into a duplicate-free rule book,
\* whatever the candidate lists hold (repeats, empty strings, known rules),
\* known_rules contains no two equal strings.
C1_NoDuplicateRules == NoDup(known_rules)

\* a merge has just added rules from a candidate list that repeats a rule, holds
\* an empty string and holds a rule already known
C1_Witness ==
    /\ wrote
    /\ new_rules # NoRules
    /\ Len(known_rules) >= 3
    /\ \E i, j \in 1..Len(new_rules) :
          /\ i < j
          /\ new_rules[i] = new_rules[j]
          /\ new_rules[i] # <<>>
    /\ <<>> \in Range(new_rules)

\* C2 (SpecMerge, where every step is one call of the merge): a merge whose
\* candidates are all known already, or that repeats the candidate list of the
\* merge before it, leaves known_rules and the rules file as they are and does
\* not open the file for writing.
C2_MergeIdempotent ==
    [][ (/\ new_rules' # NoRules
         /\ \/ new_rules' = new_rules
            \/ Range(new_rules') \subseteq Range(known_rules))
        => (/\ known_rules' = known_rules
            /\ rules_file' = rules_file
            /\ wrote' = FALSE) ]_vars

\* the last merge had candidates, all of them known, and wrote nothing
C2_Witness ==
    /\ new_rules # NoRules
    /\ Len(new_rules) >= 2
    /\ Range(new_rules) \subseteq Range(known_rules)
    /\ ~wrote
    /\ rules_file = FileText(known_rules)

HasValid(text) == \E i \in 1..Len(text) : text[i] \in valid
Leftmost(text) == CHOOSE i \in 1..Len(text) :
                     /\ text[i] \in valid
                     /\ \A j \in 1..(i - 1) : text[j] \notin valid

\* C3 (SpecParse): for every text, _parse_action returns one of the seven
\* upper-case commands or "wait"; with a character of the alphabet in the text
\* (either case) the result is the upper-case form of the leftmost one, and
\* without one it is "wait".
C3_ParseAction ==
    pc = "done" =>
        /\ action \in Commands \cup {"wait"}
        /\ HasValid(response) =>
              /\ action \in Commands
              /\ action_lower(action) = lower(response[Leftmost(response)])
        /\ ~HasValid(response) => action = "wait"

\* a text whose leftmost alphabet character is lower-case and is followed by
\* another command has been parsed
C3_Witness ==
    /\ pc = "done"
    /\ response = <<"h", "s", "D">>
    /\ action = "S"

\* C4 as stated (SpecParse): "The best move is D because..." parses to D and
\* "hmm not sure" parses to the wait sentinel.
C4_AsStated ==
    pc = "done" =>
        /\ response = BestMoveText => action = "D"
        /\ response = NotSureText => action = "wait"

\* C4 amended (SpecParse): both texts parse to S, the leftmost alphabet
\* character being the "s" of "best" and the "s" of "sure".
C4_ExampleTexts ==
    pc = "done" =>
        /\ response = BestMoveText => action = "S"
        /\ response = NotSureText => action = "S"

\* "hmm not sure" has been parsed
C4_Witness ==
    /\ pc = "done"
    /\ response = NotSureText
    /\ action # NoAction

\* a step of the planning cadence (it ends at line 266, or raises)
CadenceStep == pc = "loop" /\ pc' \in {"act", "raised"} /\ ~BudgetReached
\* a committed turn
TurnStep == state'.steps = state.steps + 1

\* C5 as stated (SpecStub, K = 5, budgets up to 12): the committed turns that
\* the cadence precedes are those whose pre-action step counter is 0, 5 or 10.
C5_AsStated ==
    [][ TurnStep => (pc = "act" <=> state.steps \in {0, 5, 10}) ]_vars

\* C5 amended (SpecStub): the cadence runs only at step counters 5 and 10, and
\* the committed turns it precedes are exactly those whose pre-action step
\* counter is 5 or 10.
C5_CadenceTurns ==
    [][ /\ CadenceStep => state.steps \in {5, 10}
        /\ TurnStep => (pc = "act" <=> state.steps \in {5, 10}) ]_vars

\* a run of 12 committed turns has ended, the plan of the cadence still active
C5_Witness ==
    /\ pc = "done"
    /\ state.steps = 12
    /\ Len(history) = 12
    /\ subgoal = "explore"

Reported == res'.status = "game_complete" \/ res'.level # state.level

\* C7 (Spec): in mode 'win' the budget-exhaustion branch, which alone calls
\* LegendInferrer, is never taken, and a run whose first server call reports
\* game_complete has ended with exactly that one action committed.
C7_WinModeTermination ==
    cfg.mode = "win" =>
        /\ calls.infer = 0
        /\ (calls.server = 1 /\ res # NoAnswer /\ res.status = "game_complete")
              => (pc = "done" /\ state.steps = 1)

\* C8 (Spec): agent.history is append-only: over every step of a run (committed
\* turn, wait retry, level transition, cadence, terminal analysis) the history
\* before the step is a prefix of the history after it.
C8_HistoryAppendOnly == [][ IsPrefix(history, history') ]_vars

\* a learning run has ended by its budget after six committed turns, a level
\* transition among them, and after the cadence
C8_Witness ==
    /\ loop = "learning"
    /\ pc = "done"
    /\ calls.infer = 1
    /\ Len(history) = 6
    /\ Len(state.local) = 1

\* C9 (Spec, both loops): on a committed turn the local history becomes empty
\* if and only if the server's answer reports a level change or completion,
\* and grows by exactly one entry otherwise; on every other step (a wait
\* turn among them) it is unchanged.
C9_LocalHistory ==
    [][ IF TurnStep
        THEN /\ Len(state'.local) = 0 <=> Reported
             /\ ~Reported => /\ Len(state'.local) = Len(state.local) + 1
                             /\ IsPrefix(state.local, state'.local)
        ELSE state'.local = state.local ]_vars

\* a solving run whose local history was reset by a level change and has
\* grown since
C9_Witness ==
    /\ loop = "solving"
    /\ state.steps = 3
    /\ state.level = 2
    /\ Len(state.local) = 1

\* C10 as stated (Spec): after every committed turn of the learning loop,
\* board_changed is true if and only if the board before the action differs
\* from the board the server returned, level changes and completion included.
C10_AsStated ==
    [][ (loop = "learning" /\ TurnStep)
        => (board_changed' <=> state.board # state'.board) ]_vars

\* C10 amended (Spec): after a committed turn of the learning loop,
\* board_changed is true if and only if the board before the action differs
\* from the board the server returned or the server reported a level change
\* or completion.
C10_BoardChanged ==
    [][ (loop = "learning" /\ TurnStep)
        => (board_changed' <=> (Reported \/ state.board # state'.board)) ]_vars

\* a turn has been committed on which the board stayed the same and no level
\* change or completion was reported
C10_Witness ==
    /\ loop = "learning"
    /\ state.steps >= 2
    /\ res # NoAnswer
    /\ prev_board = state.board
    /\ ~board_changed

\* control is where an action is selected: Agent.act is the next call
Selecting == IF loop = "learning" THEN AtAct ELSE pc = "loop"

FailStep == res' = NoAnswer /\ calls'.server = calls.server + 1

\* C12 (Spec, both loops): when srv.action fails the loop ends on that step:
\* nothing is appended to the history, the step counter and the board are as
\* before, infer_legend is not called, and no step follows the end of a run, so
\* neither the oracle nor the server is called again.
C12_ServerFailure ==
    [][ /\ pc \notin Terminal
        /\ FailStep => (/\ pc' = "done"
                        /\ history' = history
                        /\ state' = state
                        /\ known_rules' = known_rules
                        /\ rules_file' = rules_file
                        /\ calls'.infer = calls.infer
                        /\ calls'.refine = calls.refine) ]_vars

\* a learning run ended by a failed call after two committed actions, short of
\* its budget and without final analysis
C12_Witness ==
    /\ loop = "learning"
    /\ pc = "done"
    /\ res = NoAnswer
    /\ state.steps = 2
    /\ cfg.max_steps > 2
    /\ Len(history) = 2
    /\ calls.server = 3
    /\ calls.infer = 0
    /\ calls.refine = 0

\* C13 (SpecParse): when the oracle call of the action selection fails, the
\* text the failed call returns, given to _parse_action, yields the wait
\* sentinel, so that the loop takes the wait branch.
C13_OracleFailure ==
    (pc = "done" /\ response = FailedCall) => action_lower(action) = "wait"

\* C14 (Spec): an oracle response that is not the expected structure is
\* recovered from: no call raises into the loop, and a response that is no
\* JSON object leaves the legend empty.
C14_MalformedRecoverable ==
    /\ pc # "raised"
    /\ inferred_legend.truthy => inferred_legend.kind = "object"

\* C15 (Spec): whenever the rules file has just been written, _load_rules
\* reads back from it exactly known_rules.
C15_RoundTrip ==
    wrote => _load_rules(rules_file) = known_rules

\* C16 (SpecRules): known_rules never holds two equal entries: not after the
\* load of Agent.__init__, a merge, or the replacement by final rules.
C16_NoEqualEntries ==
    NoDup(known_rules)

\* the learning loop is at line 239 with the budget used up: the step being
\* taken is the final analysis
BudgetStep == loop = "learning" /\ pc = "loop" /\ BudgetReached

\* C17 as stated (Spec): in a learning run refine_and_complete_rules_and_legend
\* is called exactly once, on the step that finds the budget exhausted, and on
\* no other step.
C17_AsStated ==
    [][ loop = "learning"
        => calls'.refine = IF BudgetStep THEN calls.refine + 1 ELSE calls.refine ]_vars

\* C17 (Spec): in a learning run refine_and_complete_rules_and_legend is never
\* called; the step that finds the budget exhausted calls infer_legend, once,
\* and no other step does.
C17_FinalAnalysis ==
    [][ loop = "learning"
        => (/\ calls'.refine = 0
            /\ calls'.infer = IF BudgetStep THEN calls.infer + 1 ELSE calls.infer
            /\ calls'.infer <= 1) ]_vars

\* a learning run ended by its final analysis after five committed actions
C17_Witness ==
    /\ loop = "learning"
    /\ pc = "done"
    /\ cfg.max_steps = 5
    /\ state.steps = 5
    /\ calls.server = 5
    /\ calls.infer = 1
    /\ calls.refine = 0

\* C18 as stated (Spec), for legends that are JSON objects: the step that
\* finds the budget exhausted calls infer_legend and ends the loop; it writes
\* the rules file if and only if the legend it is left with is non-empty, and
\* then the rule book is the single summary rule, in memory and in the file;
\* otherwise the rule book and the file are unchanged.
C18_AsStated ==
    [][ (BudgetStep /\ inferred_legend'.kind = "object")
        => (/\ calls'.infer = calls.infer + 1
            /\ pc' \in Terminal
            /\ wrote' <=> inferred_legend'.truthy
            /\ wrote' => /\ known_rules' = <<SummaryRule(final_rules')>>
                         /\ rules_file' = FileText(known_rules')
            /\ ~wrote' => /\ known_rules' = known_rules
                          /\ rules_file' = rules_file) ]_vars

\* C18 (Spec): the step that finds the budget exhausted calls infer_legend
\* first; Agent.learn returns a summary if and only if the legend is then a
\* non-empty object, and the rules file is written if and only if that summary
\* is a non-empty text, after which the rule book is the single summary rule,
\* in memory and in the file; otherwise the rule book and the file are
\* unchanged.  The loop ends: by `break`, or by the AttributeError of
\* Agent.learn when the legend is non-empty and not an object.
C18_FinalAnalysis ==
    [][ BudgetStep
        => (/\ calls'.infer = calls.infer + 1
            /\ pc' = IF inferred_legend'.truthy /\ inferred_legend'.kind # "object"
                     THEN "raised" ELSE "done"
            /\ final_rules' # NoText
                 <=> (inferred_legend'.truthy /\ inferred_legend'.kind = "object")
            /\ wrote' <=> final_rules' \notin {NoText, <<>>}
            /\ wrote' => /\ known_rules' = <<SummaryHeader \o final_rules'>>
                         /\ rules_file' = SummaryHeader \o final_rules' \o <<"\n">>
            /\ ~wrote' => /\ known_rules' = known_rules
                          /\ rules_file' = rules_file) ]_vars

\* the final analysis of a run that had merged a rule on step 5 has replaced
\* the rule book by the summary rule
C18_Witness ==
    /\ loop = "learning"
    /\ pc = "done"
    /\ wrote
    /\ new_rules = <<R1>>
    /\ final_rules = <<"a">>
    /\ inferred_legend = LegendValue("object", TRUE)
    /\ Len(known_rules) = 1
    /\ IsPrefix(SummaryHeader, known_rules[1])
    /\ state.steps = 6

\* C19 (Spec, learning loop): on every committed turn on which the server
\* reports a level change or completion, the turn ends with an empty local
\* history, the subgoal "" and the level of the server's answer, and the loop
\* ends on that turn exactly if the mode is "win" and the status is
\* "game_complete"; a subgoal that is "" becomes non-empty only on a planning
\* cadence step.
C19_LevelTransition ==
    [][ loop = "learning"
        => (/\ (TurnStep /\ Reported)
                 => (/\ state'.local = <<>>
                     /\ subgoal' = ""
                     /\ state'.level = res'.level
                     /\ pc' = IF cfg.mode = "win" /\ res'.status = "game_complete"
                              THEN "done" ELSE "loop")
            /\ (subgoal = "" /\ subgoal' # "") => CadenceStep) ]_vars

\* a learn-mode run goes on after the completion reported on its sixth action,
\* which cleared the subgoal planned on step 5
C19_Witness ==
    /\ loop = "learning"
    /\ cfg.mode = "learn"
    /\ pc = "loop"
    /\ state.steps = 6
    /\ new_rules # NoRules
    /\ res # NoAnswer
    /\ res.status = "game_complete"
    /\ state.local = <<>>
    /\ subgoal = ""
    /\ state.level = res.level

\* the local history is a suffix of the global history, whose length is the
\* step counter
HistoriesAgree ==
    /\ Len(history) = state.steps
    /\ Len(state.local) <= Len(history)
    /\ state.local = SubSeq(history, Len(history) - Len(state.local) + 1, Len(history))

\* C20 (Spec, learning loop): in every state the global history is as long as
\* the step counter and the local history is a suffix of it; a committed turn
\* appends the pair of the board before the action and the action sent to the
\* global history, and to the local history unless the answer reports a level
\* transition, which empties it; no other step changes either history.
C20_Histories ==
    [][ loop = "learning"
        => (/\ HistoriesAgree
            /\ HistoriesAgree'
            /\ IF TurnStep
               THEN /\ action' \in Commands
                    /\ calls'.server = calls.server + 1
                    /\ history' = Append(history, <<state.board, action'>>)
                    /\ state'.local = IF Reported THEN <<>>
                                      ELSE Append(state.local, <<state.board, action'>>)
               ELSE /\ history' = history
                    /\ state'.local = state.local) ]_vars

\* two actions committed since the level transition of the third turn, the
\* board having changed in between
C20_Witness ==
    /\ loop = "learning"
    /\ state.steps = 5
    /\ state.level = 2
    /\ Len(state.local) = 2
    /\ history[3][1] = "B1"
    /\ history[4][1] = "B2"
    /\ state.local = SubSeq(history, 4, 5)

\* the step counter is a positive multiple of K
AtMultiple == state.steps > 0 /\ state.steps % K = 0

\* the step being taken calls deduce_rules_from_history
DeduceStep == calls'.deduce = calls.deduce + 1

\* the step being taken is an action selection: neither the cadence nor the
\* final analysis
SelectionStep == calls'.deduce = calls.deduce /\ calls'.infer = calls.infer

\* C21 as stated (Spec, learning loop): deduce_rules_from_history and
\* plan_subgoal are called at most once for each step-counter value that is a
\* positive multiple of K, whatever the number of wait turns at that value.
C21_AsStated ==
    loop = "learning"
    => (/\ calls.deduce <= state.steps \div K
        /\ calls.plan <= state.steps \div K)

\* C21 (Spec, learning loop): the planning cadence runs once per pass of the
\* loop at a step-counter value that is a positive multiple of K: it is taken
\* from the top of the loop only at such a value, calls
\* deduce_rules_from_history once and, unless that call raises, plan_subgoal
\* once; every action selection at such a value follows a cadence of its own
\* pass, so a turn retried after the wait sentinel runs the cadence again.
C21_CadenceEveryPass ==
    [][ loop = "learning"
        => (/\ calls'.deduce \in {calls.deduce, calls.deduce + 1}
            /\ DeduceStep
                 => (/\ pc = "loop"
                     /\ AtMultiple
                     /\ pc' \in {"act", "raised"}
                     /\ calls'.plan = IF pc' = "act" THEN calls.plan + 1 ELSE calls.plan)
            /\ ~DeduceStep => calls'.plan = calls.plan
            /\ SelectionStep => (pc = "act" <=> AtMultiple)) ]_vars

\* at step counter 5 the turn was retried after a wait, and the cadence has
\* run a second time
C21_Witness ==
    /\ loop = "learning"
    /\ pc = "act"
    /\ state.steps = 5
    /\ action = "wait"
    /\ calls.deduce = 2
    /\ calls.plan = 2

\* C22 (Spec, runs of mode "learn"): a learning run that has left its loop has
\* committed at most max_steps actions and left it by budget exhaustion (the
\* final analysis was entered) or by a failed srv.action call.
C22_LearnRunExit ==
    (loop = "learning" /\ cfg.mode = "learn" /\ pc \in Terminal)
    => (/\ state.steps <= cfg.max_steps
        /\ \/ calls.infer = 1
           \/ res = NoAnswer /\ calls.server = state.steps + 1)

=============================================================================
